---- MODULE Spec2Model ----
(***************************************************************************)
(* EJBCA MCP server (src/ejbca-mcp-server.py): the tool dispatcher         *)
(* handle_call_tool, the request mapping of EJBCARestClient, its two       *)
(* transport channels (requests session, curl subprocess) and the result   *)
(* formatter.                                                              *)
(*                                                                         *)
(* Python dicts are functions over string keys.  Strings that the code     *)
(* inspects character by character (distinguished names) are sequences of  *)
(* one-character strings; byte strings are sequences of 0..255.            *)
(***************************************************************************)
EXTENDS Integers, Sequences, FiniteSets, TLC

VARIABLES ejbca_client, fs, clock, pc, name, arguments, probe, pending,
          stage, results, wire, result, envelope, inbox, generated

vars == <<ejbca_client, fs, clock, pc, name, arguments, probe, pending,
          stage, results, wire, result, envelope, inbox, generated>>

----------------------------------------------------------------------------
(* Bounds of the model *)

\* largest CRL payload the backend returns, in bytes (beyond the preview)
MaxCrlLen == 53
\* seconds on the wall clock
MaxClock == 1
\* calls issued by the clients and not yet started by the server
MaxInbox == 2
\* enrollments without a username that are followed
MaxGenerated == 2

(* Program constants *)

\* crl_data[:50]
PreviewLen == 50
\* response.text[:500]
MessageLimit == 500

----------------------------------------------------------------------------
(* dict helpers *)

EmptyDict == <<>>

Has(d, k) == k \in DOMAIN d

Get(d, k, default) == IF k \in DOMAIN d THEN d[k] ELSE default

Put(d, k, v) == [x \in (DOMAIN d) \cup {k} |-> IF x = k THEN v ELSE d[x]]

Pop(d, k) == [x \in (DOMAIN d) \ {k} |-> d[x]]

Restrict(d, ks) == [x \in ks |-> d[x]]

Min(a, b) == IF a <= b THEN a ELSE b

Take(s, n) == SubSeq(s, 1, Min(Len(s), n))

Bytes(n) == [i \in 1..n |-> i % 256]

----------------------------------------------------------------------------
(* urllib.parse.quote(s, safe='') *)

\* what a missing optional argument reads as: arguments.get(k) is None
None == <<"None">>

\* the characters quote() never encodes, whatever `safe` is
AlwaysSafe ==
    {"A","B","C","D","E","F","G","H","I","J","K","L","M","N","O","P","Q","R",
     "S","T","U","V","W","X","Y","Z",
     "a","b","c","d","e","f","g","h","i","j","k","l","m","n","o","p","q","r",
     "s","t","u","v","w","x","y","z",
     "0","1","2","3","4","5","6","7","8","9","_",".","-","~"}

PercentEncode(c) ==
    CASE c = "=" -> "%3D"
      [] c = " " -> "%20"
      [] c = "," -> "%2C"
      [] c = "/" -> "%2F"
      [] OTHER   -> "%??"

\* urllib.parse.quote_plus: a space becomes "+"
QuotePlus(s) ==
    [i \in 1..Len(s) |-> IF s[i] \in AlwaysSafe THEN s[i]
                         ELSE IF s[i] = " " THEN "+" ELSE PercentEncode(s[i])]

Quote(s) == [i \in 1..Len(s) |-> IF s[i] \in AlwaysSafe THEN s[i] ELSE PercentEncode(s[i])]

\* quote(None) raises TypeError
QuoteRaises(s) == s = None

\* `if issuer_dn:`
Truthy(s) == s # None /\ s # <<>>

----------------------------------------------------------------------------
(* EJBCARestClient: the request each method hands to _make_request *)

Req(method, endpoint, kwargs) ==
    [method |-> method, endpoint |-> endpoint, kwargs |-> kwargs]

NoKwargs == EmptyDict

\* str(crl_partition_index)
IntStr(i) == <<"str", i>>

get_certificate_api_status == Req("GET", <<"certificate/status">>, NoKwargs)

get_ca_list == Req("GET", <<"ca">>, NoKwargs)

get_ca_version == Req("GET", <<"ca/version">>, NoKwargs)

search_certificates(criteria) ==
    Req("GET", <<"certificate/search">>, [params |-> criteria])

get_certificate_by_serial(serial_number, issuer_dn) ==
    IF Truthy(issuer_dn)
    THEN Req("GET", <<"certificate/">> \o Quote(issuer_dn) \o <<"/", serial_number>>, NoKwargs)
    ELSE Req("GET", <<"certificate/serialnumber/", serial_number>>, NoKwargs)

get_certificate_status(issuer_dn, serial_number) ==
    Req("GET", <<"certificate/">> \o Quote(issuer_dn)
               \o <<"/", serial_number, "/revocationstatus">>, NoKwargs)

revoke_certificate(issuer_dn, serial_number, reason) ==
    Req("PUT", <<"certificate/">> \o Quote(issuer_dn) \o <<"/", serial_number, "/revoke">>,
        [json |-> [reason |-> reason]])

\* params = {}; deltaCrl only if true, crlPartitionIndex only if != 0
CrlParams(delta_crl, crl_partition_index) ==
    [k \in (IF delta_crl THEN {"deltaCrl"} ELSE {})
           \cup (IF crl_partition_index # 0 THEN {"crlPartitionIndex"} ELSE {})
       |-> IF k = "deltaCrl" THEN "true" ELSE IntStr(crl_partition_index)]

get_latest_crl(issuer_dn, delta_crl, crl_partition_index) ==
    Req("GET", <<"ca/">> \o Quote(issuer_dn) \o <<"/getLatestCrl">>,
        [params |-> CrlParams(delta_crl, crl_partition_index)])

get_crl(issuer_dn, delta_crl, crl_partition_index) ==
    IF Truthy(issuer_dn)
    THEN Req("GET", <<"ca/">> \o Quote(issuer_dn) \o <<"/getcrl">>,
             [params |-> CrlParams(delta_crl, crl_partition_index)])
    ELSE Req("GET", <<"ca/crl">>, NoKwargs)

create_crl(issuer_dn, delta_crl) ==
    Req("POST", <<"ca/">> \o Quote(issuer_dn) \o <<"/createcrl">>,
        [params |-> [k \in (IF delta_crl THEN {"deltacrl"} ELSE {}) |-> "true"]])

get_crl_info(issuer_dn) ==
    Req("GET", <<"ca/">> \o Quote(issuer_dn) \o <<"/crlinfo">>, NoKwargs)

get_ca_certificate(ca_subject_dn) ==
    Req("GET", <<"ca/">> \o Quote(ca_subject_dn) \o <<"/certificate/download">>, NoKwargs)

get_ca_certificates(ca_subject_dn) ==
    Req("GET", <<"ca/">> \o Quote(ca_subject_dn) \o <<"/certificate">>, NoKwargs)

\* a username is the text the caller gave, or mcp_user_<strftime(now)>
GivenUsername(text) == [auto |-> FALSE, text |-> text, stamp |-> 0]

GeneratedUsername(now) == [auto |-> TRUE, text |-> "mcp_user_", stamp |-> now]

NoUsername == GivenUsername("")

enroll_certificate(certificate_request, ca_name, certificate_profile, end_entity_profile, username, now) ==
    Req("POST", <<"certificate/enroll">>,
        [json |-> [certificateRequest |-> certificate_request,
                   certificateAuthorityName |-> ca_name,
                   certificateProfileName |-> certificate_profile,
                   endEntityProfileName |-> end_entity_profile,
                   username |-> IF username = NoUsername
                                THEN GeneratedUsername(now) ELSE username,
                   password |-> "mcp_temp_password"]])

----------------------------------------------------------------------------
(* handle_call_tool: name lookup and argument handling *)

Composite == {"test_ejbca_connection", "troubleshoot_connection"}

Tools ==
    Composite \cup
    {"get_certificate_api_status", "get_ca_list", "get_ca_version",
     "search_certificates", "get_certificate_by_serial", "get_certificate_status",
     "revoke_certificate", "get_crl", "get_latest_crl", "create_crl",
     "get_crl_info", "get_ca_certificate", "get_ca_certificates",
     "enroll_certificate"}

\* the if/elif chain with a last branch that takes every other name
BranchCatchAll(n) == IF n \in Tools THEN n ELSE "get_certificate_api_status"

\* the branch of the if/elif chain that the name `n` selects
Branch(n) == IF n \in Tools THEN n ELSE "else"

\* Subscripted with the serial number read by arguments.get(...)
SubscriptedButSerial(n) ==
    CASE n = "get_certificate_by_serial" -> {}
      [] n = "get_certificate_status"    -> {"issuer_dn"}
      [] n = "revoke_certificate"        -> {"issuer_dn"}
      [] n = "get_latest_crl"            -> {"issuer_dn"}
      [] n = "create_crl"                -> {"issuer_dn"}
      [] n = "get_crl_info"              -> {"issuer_dn"}
      [] n = "get_ca_certificate"        -> {"ca_subject_dn"}
      [] n = "get_ca_certificates"       -> {"ca_subject_dn"}
      [] n = "enroll_certificate"        -> {"certificate_request", "ca_name"}
      [] OTHER                           -> {}

\* the keys the branch of `n` reads with arguments[...]: a missing one is a KeyError
Subscripted(n) ==
    CASE n = "get_certificate_by_serial" -> {"serial_number"}
      [] n = "get_certificate_status"    -> {"issuer_dn", "serial_number"}
      [] n = "revoke_certificate"        -> {"issuer_dn", "serial_number"}
      [] n = "get_latest_crl"            -> {"issuer_dn"}
      [] n = "create_crl"                -> {"issuer_dn"}
      [] n = "get_crl_info"              -> {"issuer_dn"}
      [] n = "get_ca_certificate"        -> {"ca_subject_dn"}
      [] n = "get_ca_certificates"       -> {"ca_subject_dn"}
      [] n = "enroll_certificate"        -> {"certificate_request", "ca_name"}
      [] OTHER                           -> {}

\* the distinguished name the branch of `n` passes on to quote()
QuotedDn(n, args) ==
    CASE n \in {"get_certificate_status", "revoke_certificate", "get_latest_crl",
                "create_crl", "get_crl_info"} -> Get(args, "issuer_dn", None)
      [] n \in {"get_ca_certificate", "get_ca_certificates"}
                                              -> Get(args, "ca_subject_dn", None)
      [] OTHER                                -> <<>>

\* the exception the branch of `n` raises before any request is made ("" if none)
ArgumentError(n, args) ==
    IF Subscripted(n) \ DOMAIN args # {} THEN "KeyError"
    ELSE IF QuoteRaises(QuotedDn(n, args)) THEN "TypeError"
    ELSE ""

\* search_certificates: criteria built from the arguments present
Criteria(args) ==
    LET renamed == [query |-> "query", max_results |-> "maxResults",
                    subject_dn |-> "subjectDN", issuer_dn |-> "issuerDN"]
        present == {k \in DOMAIN renamed : k \in DOMAIN args}
    IN [c \in {renamed[k] : k \in present} |->
           args[CHOOSE k \in present : renamed[k] = c]]

\* the requests the branch of `n` makes, in order
Requests(n, args, now) ==
    CASE n = "test_ejbca_connection" ->
           <<get_certificate_api_status, get_ca_version>>
      [] n = "troubleshoot_connection" ->
           <<get_certificate_api_status, get_ca_version, get_ca_list>>
      [] n = "get_certificate_api_status" -> <<get_certificate_api_status>>
      [] n = "get_ca_list" -> <<get_ca_list>>
      [] n = "get_ca_version" -> <<get_ca_version>>
      [] n = "search_certificates" -> <<search_certificates(Criteria(args))>>
      [] n = "get_certificate_by_serial" ->
           <<get_certificate_by_serial(Get(args, "serial_number", "None"),
                                       Get(args, "issuer_dn", None))>>
      [] n = "get_certificate_status" ->
           <<get_certificate_status(Get(args, "issuer_dn", None),
                                    Get(args, "serial_number", "None"))>>
      [] n = "revoke_certificate" ->
           <<revoke_certificate(Get(args, "issuer_dn", None),
                                Get(args, "serial_number", "None"),
                                Get(args, "reason", "UNSPECIFIED"))>>
      [] n = "get_crl" ->
           <<get_crl(Get(args, "issuer_dn", None),
                     Get(args, "delta_crl", FALSE),
                     Get(args, "crl_partition_index", 0))>>
      [] n = "get_latest_crl" ->
           <<get_latest_crl(Get(args, "issuer_dn", None),
                            Get(args, "delta_crl", FALSE),
                            Get(args, "crl_partition_index", 0))>>
      [] n = "create_crl" ->
           <<create_crl(Get(args, "issuer_dn", None), Get(args, "delta_crl", FALSE))>>
      [] n = "get_crl_info" -> <<get_crl_info(Get(args, "issuer_dn", None))>>
      [] n = "get_ca_certificate" ->
           <<get_ca_certificate(Get(args, "ca_subject_dn", None))>>
      [] n = "get_ca_certificates" ->
           <<get_ca_certificates(Get(args, "ca_subject_dn", None))>>
      [] n = "enroll_certificate" ->
           <<enroll_certificate(Get(args, "certificate_request", "None"),
                                Get(args, "ca_name", "None"),
                                Get(args, "certificate_profile", "ENDUSER"),
                                Get(args, "end_entity_profile", "EMPTY"),
                                Get(args, "username", NoUsername),
                                now)>>

----------------------------------------------------------------------------
(* The backend and the two channels *)

CrlType == "application/pkix-crl"

JsonBody(obj) == [kind |-> "json_object", obj |-> obj, content |-> <<"{}">>]

\* a JSON document that is no object: an array, a number, a string, null
JsonOther == [kind |-> "json_other", obj |-> EmptyDict, content |-> <<"[]">>]

\* a body that is no JSON document
Raw(content) == [kind |-> "raw", obj |-> EmptyDict, content |-> content]

Answer(status, ctype, body) == [status |-> status, ctype |-> ctype, body |-> body]

NoAnswer == Answer(0, "", [kind |-> "none", obj |-> EmptyDict, content |-> <<>>])

JsonObjects ==
    {[status |-> "OK"],
     [error |-> "denied"],
     [success |-> FALSE],
     [error_code |-> 404, error_message |-> "not found"]}

CrlSizes == {0, PreviewLen, PreviewLen + 1, MaxCrlLen}

\* the requests of get_crl and get_latest_crl, which the backend answers with a CRL
CrlRequest(req) ==
    req.endpoint[Len(req.endpoint)] \in {"ca/crl", "/getcrl", "/getLatestCrl"}

\* what the backend may answer to a request
Answers(req) ==
    {Answer(200, "application/json", JsonBody(o)) : o \in JsonObjects}
    \cup {Answer(200, "application/json", JsonOther)}
    \cup (IF CrlRequest(req)
          THEN {Answer(200, CrlType, Raw(Bytes(n))) : n \in CrlSizes}
          ELSE {})
    \cup {Answer(200, "text/html", Raw(Bytes(3)))}
    \cup {Answer(201, "application/json", JsonBody([status |-> "OK"])),
          Answer(404, "application/json",
                 JsonBody([error_code |-> 404, error_message |-> "not found"])),
          Answer(500, "text/html", Raw(Bytes(3)))}

\* session.request(...): an exception (network, TLS, timeout) or an answer
PrimaryOutcomes(req) ==
    {[exc |-> TRUE, answer |-> NoAnswer]}
    \cup {[exc |-> FALSE, answer |-> a] : a \in Answers(req)}

\* subprocess.run(cmd, capture_output=True, text=True, timeout=30): curl exits 0
\* with the answer's body on stdout, exits non-zero, runs into the timeout, or
\* run() raises (no curl binary, stdout that does not decode as text)
CurlOutcomes(req) ==
    {[kind |-> "exit0", answer |-> a] : a \in Answers(req)}
    \cup {[kind |-> k, answer |-> NoAnswer] : k \in {"nonzero", "timeout", "exception"}}
    \cup {[kind |-> "exception", answer |-> a] :
            a \in {b \in Answers(req) : b.body.kind = "raw" /\ b.ctype = CrlType}}

Url(client, endpoint) == <<client.base_url, "/ejbca/ejbca-rest-api/v1/">> \o endpoint

\* PrimaryRaises with response.raise_for_status() in the try block
PrimaryRaisesForStatus(out) ==
    \/ out.exc
    \/ out.answer.status = 200 /\ out.answer.body.kind = "json_other"
    \/ out.answer.status >= 400

\* the primary attempt leaves the try block by an exception: one raised by
\* session.request, or the TypeError of result["_method"] = ... when the 200
\* body is a JSON document that is no object
PrimaryRaises(out) ==
    out.exc \/ (out.answer.status = 200 /\ out.answer.body.kind = "json_other")

\* what session.request puts on the wire, and whether the attempt raised
PrimaryWire(client, slot, req, out) ==
    [slot |-> slot, channel |-> "requests", method |-> req.method,
     url |-> Url(client, req.endpoint),
     query |-> Get(req.kwargs, "params", EmptyDict),
     body |-> Get(req.kwargs, "json", EmptyDict),
     raised |-> PrimaryRaises(out),
     kind |-> IF out.exc THEN "exception" ELSE "answer",
     answer |-> out.answer]

\* lines 149-182: the dict built from an answer of the primary channel
PrimaryResult(client, req, a) ==
    IF a.status = 200
    THEN IF a.body.kind = "json_object"
         THEN Put(Put(a.body.obj, "_method", "requests"), "_status_code", a.status)
         ELSE IF a.ctype = CrlType
         THEN [crl_data |-> a.body.content, content_type |-> a.ctype,
               content_length |-> Len(a.body.content), success |-> TRUE,
               _method |-> "requests", _status_code |-> a.status]
         ELSE [response |-> a.body.content, success |-> TRUE,
               _method |-> "requests", _status_code |-> a.status]
    ELSE [error |-> <<"HTTP ", a.status>>,
          message |-> Take(a.body.content, MessageLimit),
          _method |-> "requests", _status_code |-> a.status,
          _url |-> Url(client, req.endpoint)]

\* data = kwargs.get('json') if 'json' in kwargs else None
CurlData(req) == Get(req.kwargs, "json", EmptyDict)

\* -X POST / -X PUT only with a body; curl's default method otherwise
CurlMethod(method, data) ==
    IF method \in {"POST", "PUT"} /\ DOMAIN data # {} THEN method ELSE "GET"

\* what the curl command line puts on the wire
CurlWire(client, slot, req, out) ==
    [slot |-> slot, channel |-> "curl",
     method |-> CurlMethod(req.method, CurlData(req)),
     url |-> Url(client, req.endpoint),
     query |-> EmptyDict,
     body |-> IF req.method \in {"POST", "PUT"} THEN CurlData(req) ELSE EmptyDict,
     raised |-> out.kind \in {"timeout", "exception"},
     kind |-> out.kind,
     answer |-> out.answer]

\* CurlResult with the timeout handler leaving out the channel tag
CurlResultUntaggedTimeout(out) ==
    CASE out.kind = "timeout" ->
           [error |-> "Request timed out"]
      [] out.kind = "exception" ->
           [error |-> "Curl command failed", _method |-> "curl"]
      [] out.kind = "nonzero" ->
           [error |-> "Curl failed", stderr |-> "curl: (7)", _method |-> "curl"]
      [] out.kind = "exit0" ->
           IF Len(out.answer.body.content) = 0
           THEN [error |-> "Curl failed", stderr |-> "", _method |-> "curl"]
           ELSE IF out.answer.body.kind = "json_object"
           THEN Put(out.answer.body.obj, "_method", "curl")
           ELSE IF out.answer.body.kind = "json_other"
           THEN [error |-> "Curl command failed", _method |-> "curl"]
           ELSE [response |-> out.answer.body.content, success |-> TRUE,
                 _method |-> "curl"]

\* lines 106-127: the dict built from the outcome of the curl process
CurlResult(out) ==
    CASE out.kind = "timeout" ->
           [error |-> "Request timed out", _method |-> "curl"]
      [] out.kind = "exception" ->
           [error |-> "Curl command failed", _method |-> "curl"]
      [] out.kind = "nonzero" ->
           [error |-> "Curl failed", stderr |-> "curl: (7)", _method |-> "curl"]
      [] out.kind = "exit0" ->
           IF Len(out.answer.body.content) = 0
           THEN [error |-> "Curl failed", stderr |-> "", _method |-> "curl"]
           ELSE IF out.answer.body.kind = "json_object"
           THEN Put(out.answer.body.obj, "_method", "curl")
           ELSE IF out.answer.body.kind = "json_other"
           THEN [error |-> "Curl command failed", _method |-> "curl"]
           ELSE [response |-> out.answer.body.content, success |-> TRUE,
                 _method |-> "curl"]

\* line 80-81
NoCertificates == [error |-> "No certificates available for authentication"]

\* _make_request as a whole: the dict it returns when the primary attempt ends
\* as `pout` and the curl process, if it is run, as `cout`
MakeRequest(client, req, pout, cout) ==
    IF client.has_certificates /\ ~PrimaryRaises(pout)
    THEN PrimaryResult(client, req, pout.answer)
    ELSE IF ~client.has_certificates
    THEN NoCertificates
    ELSE CurlResult(cout)

----------------------------------------------------------------------------
(* handle_call_tool: the result of a branch and its formatting *)

Exists(path, present) == path # "" /\ present

\* the recommendation rules as an if/elif chain: the first one that applies
RecommendationsFirstOnly(client, p, health_result, ca_result) ==
    IF ~client.has_certificates THEN <<"configure_certificates">>
    ELSE IF ~p.cert_exists /\ client.cert_path # "" THEN <<"cert_not_found">>
    ELSE IF ~p.key_exists /\ client.key_path # "" THEN <<"key_not_found">>
    ELSE IF Has(health_result, "error") THEN <<"certificate_api">>
    ELSE IF Has(ca_result, "error") THEN <<"ca_api">>
    ELSE <<>>

\* lines 731-740: the recommendation rules, in order
Recommendations(client, p, health_result, ca_result) ==
    (IF ~client.has_certificates THEN <<"configure_certificates">> ELSE <<>>)
    \o (IF ~p.cert_exists /\ client.cert_path # "" THEN <<"cert_not_found">> ELSE <<>>)
    \o (IF ~p.key_exists /\ client.key_path # "" THEN <<"key_not_found">> ELSE <<>>)
    \o (IF Has(health_result, "error") THEN <<"certificate_api">> ELSE <<>>)
    \o (IF Has(ca_result, "error") THEN <<"ca_api">> ELSE <<>>)

\* the value of `result` once the branch of `n` has its sub-results `rs`
Assemble(client, n, p, rs) ==
    CASE n = "test_ejbca_connection" ->
           [connection_test |-> "completed",
            certificate_api_status |-> rs[1],
            ca_version |-> rs[2],
            certificates_available |-> client.has_certificates,
            base_url |-> client.base_url]
      [] n = "troubleshoot_connection" ->
           [diagnostics |-> [base_url |-> client.base_url,
                             cert_path |-> client.cert_path,
                             key_path |-> client.key_path,
                             cert_exists |-> p.cert_exists,
                             key_exists |-> p.key_exists,
                             certificates_available |-> client.has_certificates],
            api_tests |-> [certificate_status |-> rs[1],
                           ca_version |-> rs[2],
                           ca_list |-> rs[3]],
            recommendations |-> Recommendations(client, p, rs[1], rs[2])]
      [] OTHER -> rs[1]

\* Classify with SUCCESS for a result that has no indicator at all
ClassifyDefaultSuccess(res) ==
    IF Has(res, "error") THEN "ERROR" ELSE "SUCCESS"

\* Classify with the success test ahead of the error test
ClassifySuccessFirst(res) ==
    IF Get(res, "success", FALSE) \/ (Has(res, "_status_code") /\ res["_status_code"] = 200)
    THEN "SUCCESS"
    ELSE IF Has(res, "error") THEN "ERROR"
    ELSE "WARNING"

\* lines 832-840
Classify(res) ==
    IF Has(res, "error") THEN "ERROR"
    ELSE IF Get(res, "success", FALSE) \/ (Has(res, "_status_code") /\ res["_status_code"] = 200)
    THEN "SUCCESS"
    ELSE "WARNING"

\* f"{crl_data[:50]}..." if len(crl_data) > 50 else str(crl_data)
Preview(crl_data) ==
    IF Len(crl_data) > PreviewLen
    THEN [shown |-> SubSeq(crl_data, 1, PreviewLen), ellipsis |-> TRUE]
    ELSE [shown |-> crl_data, ellipsis |-> FALSE]

\* lines 848-858
Display(res) ==
    LET cleaned == Pop(Pop(Pop(res, "_method"), "_status_code"), "_url")
    IN IF Has(cleaned, "crl_data")
       THEN Put(Put(Pop(cleaned, "crl_data"),
                    "crl_size_bytes", Len(cleaned["crl_data"])),
                "crl_data_preview", Preview(cleaned["crl_data"]))
       ELSE cleaned

Icon(status_text) ==
    CASE status_text = "ERROR" -> "cross"
      [] status_text = "SUCCESS" -> "check"
      [] OTHER -> "warning"

\* lines 827-867
Format(res) ==
    [kind |-> "result", icon |-> Icon(Classify(res)), status_text |-> Classify(res),
     method |-> Get(res, "_method", "unknown"),
     status_code |-> Get(res, "_status_code", "N/A"),
     body |-> Display(res), error |-> "", tip |-> FALSE]

\* lines 821-825
UnknownTool ==
    [kind |-> "unknown_tool", icon |-> "cross", status_text |-> "Unknown tool",
     method |-> "", status_code |-> "", body |-> EmptyDict, error |-> "", tip |-> FALSE]

\* the handler catching TypeError alone
CaughtTypeErrorOnly(exc) == exc = "TypeError"

\* `except Exception`, line 869: the exception classes the handler catches
Caught(exc) == exc \in {"KeyError", "TypeError"}

\* lines 869-876
Failed(exc) ==
    [kind |-> "exception", icon |-> "cross", status_text |-> "ERROR",
     method |-> "", status_code |-> "", body |-> EmptyDict, error |-> exc, tip |-> TRUE]

NoEnvelope ==
    [kind |-> "none", icon |-> "", status_text |-> "",
     method |-> "", status_code |-> "", body |-> EmptyDict, error |-> "", tip |-> FALSE]

----------------------------------------------------------------------------
(* Inputs *)

Dns == {<<>>, <<"C", "N", "=", "T", " ", "A">>}

Reasons == {"KEY_COMPROMISE", "BOGUS"}

PartitionIndexes == {0, 2}

Usernames == {NoUsername, GivenUsername("alice")}

UnknownNames == {"delete_everything"}

\* the properties of the input schema of tool `n` (handle_list_tools)
Params(n) ==
    CASE n = "search_certificates" -> {"query", "max_results", "subject_dn", "issuer_dn"}
      [] n = "get_certificate_by_serial" -> {"serial_number", "issuer_dn"}
      [] n = "get_certificate_status" -> {"issuer_dn", "serial_number"}
      [] n = "revoke_certificate" -> {"issuer_dn", "serial_number", "reason"}
      [] n = "get_crl" -> {"issuer_dn", "delta_crl", "crl_partition_index"}
      [] n = "get_latest_crl" -> {"issuer_dn", "delta_crl", "crl_partition_index"}
      [] n = "create_crl" -> {"issuer_dn", "delta_crl"}
      [] n = "get_crl_info" -> {"issuer_dn"}
      [] n = "get_ca_certificate" -> {"ca_subject_dn"}
      [] n = "get_ca_certificates" -> {"ca_subject_dn"}
      [] n = "enroll_certificate" ->
           {"certificate_request", "ca_name", "certificate_profile",
            "end_entity_profile", "username"}
      [] OTHER -> {}

AllArguments(dn, reason, delta, idx, user) ==
    [issuer_dn |-> dn, ca_subject_dn |-> dn, subject_dn |-> dn,
     serial_number |-> "1A2B3C", reason |-> reason,
     delta_crl |-> delta, crl_partition_index |-> idx,
     query |-> "q", max_results |-> 10,
     certificate_request |-> "CSR", ca_name |-> "ManagementCA",
     certificate_profile |-> "TLS", end_entity_profile |-> "SERVER",
     username |-> user]

----------------------------------------------------------------------------
(* State *)

\* NewClient with `or` between the two file tests
NewClientEitherFile(base_url, cert_path, key_path, files) ==
    LET has == Exists(cert_path, files.cert) \/ Exists(key_path, files.key)
    IN [base_url |-> base_url, cert_path |-> cert_path, key_path |-> key_path,
        has_certificates |-> has,
        session_cert |-> IF has THEN <<cert_path, key_path>> ELSE <<>>]

\* EJBCARestClient.__init__
NewClient(base_url, cert_path, key_path, files) ==
    LET has == Exists(cert_path, files.cert) /\ Exists(key_path, files.key)
    IN [base_url |-> base_url, cert_path |-> cert_path, key_path |-> key_path,
        has_certificates |-> has,
        session_cert |-> IF has THEN <<cert_path, key_path>> ELSE <<>>]

\* a client that gives up its certificates once the session has raised
ClientAfterDisabling(client, raised) ==
    IF raised THEN [client EXCEPT !.has_certificates = FALSE] ELSE client

\* the client object after an attempt of _make_request: no attribute of self is
\* assigned outside __init__
ClientAfter(client, raised) == client

\* the calls that clients issue concurrently
Issued ==
    {[n |-> "get_ca_list", args |-> EmptyDict],
     [n |-> "enroll_certificate",
      args |-> [certificate_request |-> "CSR", ca_name |-> "ManagementCA"]]}

NoProbe == [cert_exists |-> FALSE, key_exists |-> FALSE]

Init ==
    /\ fs \in [cert : BOOLEAN, key : BOOLEAN]
    /\ \E cert_path \in {"", "client.pem"}, key_path \in {"", "client.key"} :
         ejbca_client = NewClient("https://localhost:443", cert_path, key_path, fs)
    /\ clock = 0
    /\ pc = "idle"
    /\ name = ""
    /\ arguments = EmptyDict
    /\ probe = NoProbe
    /\ pending = <<>>
    /\ stage = "none"
    /\ results = <<>>
    /\ wire = <<>>
    /\ result = EmptyDict
    /\ envelope = NoEnvelope
    /\ inbox = [c \in Issued |-> 0]
    /\ generated = <<>>

----------------------------------------------------------------------------
(* Actions *)

\* the handler returns `env` without (further) transport
ReturnEnvelope(env) ==
    /\ pc' = "done"
    /\ pending' = <<>>
    /\ stage' = "none"
    /\ envelope' = env

\* _make_request returns `res`: the next client call of the branch starts, or the
\* branch's result is formatted and returned
Complete(res) ==
    LET rs == Append(results, res)
    IN /\ results' = rs
       /\ IF Len(pending) > 1
          THEN /\ pending' = Tail(pending)
               /\ stage' = "request"
               /\ UNCHANGED <<pc, result, envelope>>
          ELSE /\ result' = Assemble(ejbca_client, name, probe, rs)
               /\ ReturnEnvelope(Format(Assemble(ejbca_client, name, probe, rs)))

\* handle_call_tool(n, args) up to its first client call
Dispatch(n, args) ==
    /\ pc = "idle"
    /\ name' = n
    /\ arguments' = args
    /\ UNCHANGED <<ejbca_client, fs, clock, results, wire, result>>
    /\ IF Branch(n) = "else"
       THEN /\ ReturnEnvelope(UnknownTool)
            /\ UNCHANGED probe
       ELSE IF ArgumentError(Branch(n), args) # ""
       THEN /\ IF Caught(ArgumentError(Branch(n), args))
               THEN ReturnEnvelope(Failed(ArgumentError(Branch(n), args)))
               ELSE /\ pc' = "propagated"
                    /\ UNCHANGED <<pending, stage, envelope>>
            /\ UNCHANGED probe
       ELSE /\ pc' = "transport"
            /\ pending' = Requests(Branch(n), args, clock)
            /\ stage' = "request"
            /\ probe' = IF Branch(n) = "troubleshoot_connection"
                        THEN [cert_exists |-> Exists(ejbca_client.cert_path, fs.cert),
                              key_exists |-> Exists(ejbca_client.key_path, fs.key)]
                        ELSE NoProbe
            /\ UNCHANGED envelope

\* _make_request, lines 139-185: the attempt over the requests session
PrimaryRequest ==
    /\ pc = "transport"
    /\ stage = "request"
    /\ ejbca_client.has_certificates
    /\ \E out \in PrimaryOutcomes(Head(pending)) :
         /\ wire' = Append(wire, PrimaryWire(ejbca_client, Len(results) + 1, Head(pending), out))
         /\ IF PrimaryRaises(out)
            THEN /\ stage' = "fallback"
                 /\ UNCHANGED <<pc, pending, results, result, envelope>>
            ELSE Complete(PrimaryResult(ejbca_client, Head(pending), out.answer))
         /\ ejbca_client' = ClientAfter(ejbca_client, PrimaryRaises(out))
    /\ UNCHANGED <<fs, clock, name, arguments, probe, inbox, generated>>

\* _make_request, lines 187-189, and _curl_fallback
CurlFallback ==
    /\ pc = "transport"
    /\ \/ stage = "fallback"
       \/ stage = "request" /\ ~ejbca_client.has_certificates
    /\ IF ~ejbca_client.has_certificates
       THEN /\ Complete(NoCertificates)
            /\ UNCHANGED wire
       ELSE \E out \in CurlOutcomes(Head(pending)) :
              /\ wire' = Append(wire, CurlWire(ejbca_client, Len(results) + 1, Head(pending), out))
              /\ Complete(CurlResult(out))
    /\ UNCHANGED <<ejbca_client, fs, clock, name, arguments, probe, inbox, generated>>

\* the server takes the envelope and waits for the next call
Return ==
    /\ pc = "done"
    /\ pc' = "idle"
    /\ name' = ""
    /\ arguments' = EmptyDict
    /\ probe' = NoProbe
    /\ results' = <<>>
    /\ wire' = <<>>
    /\ result' = EmptyDict
    /\ envelope' = NoEnvelope
    /\ UNCHANGED <<ejbca_client, fs, clock, pending, stage, inbox, generated>>

\* a second passes on the wall clock
Tick ==
    /\ pc = "idle"
    /\ clock < MaxClock
    /\ clock' = clock + 1
    /\ UNCHANGED <<ejbca_client, fs, pc, name, arguments, probe, pending,
                   stage, results, wire, result, envelope, inbox, generated>>

Call ==
    \E n \in Tools \cup UnknownNames, dn \in Dns, reason \in Reasons, delta \in BOOLEAN,
       idx \in PartitionIndexes, user \in Usernames :
      \E ks \in SUBSET Params(n) :
        /\ Dispatch(n, Restrict(AllArguments(dn, reason, delta, idx, user), ks))
        /\ UNCHANGED <<inbox, generated>>

Next == Call \/ PrimaryRequest \/ CurlFallback \/ Return \/ Tick

Spec == Init /\ [][Next]_vars

\* the usernames that enroll_certificate generates for the requests of a call
AutoUsernames(reqs) ==
    SelectSeq([k \in 1..Len(reqs) |->
                  IF Has(reqs[k].kwargs, "json") /\ Has(reqs[k].kwargs["json"], "username")
                  THEN reqs[k].kwargs["json"]["username"] ELSE NoUsername],
              LAMBDA u : u.auto)

\* a client sends a call while the server is idle or busy with another call
Issue ==
    /\ \E c \in Issued :
         /\ inbox[c] < MaxInbox
         /\ inbox' = [inbox EXCEPT ![c] = @ + 1]
    /\ UNCHANGED <<ejbca_client, fs, clock, pc, name, arguments, probe, pending,
                   stage, results, wire, result, envelope, generated>>

\* the event loop starts the handler of a call that is waiting: handle_call_tool
\* has no await, so the next handler starts only when the running one has returned
Start ==
    \E c \in Issued :
      /\ inbox[c] > 0
      /\ Len(generated) + Len(AutoUsernames(Requests(c.n, c.args, clock))) <= MaxGenerated
      /\ Dispatch(c.n, c.args)
      /\ inbox' = [inbox EXCEPT ![c] = @ - 1]
      /\ generated' = generated \o AutoUsernames(Requests(c.n, c.args, clock))

NextConcurrent == Issue \/ Start \/ PrimaryRequest \/ CurlFallback \/ Return \/ Tick

SpecConcurrent == Init /\ [][NextConcurrent]_vars

----------------------------------------------------------------------------
(* Properties *)

\* the "required" list of the input schema of tool `n`
Required(n) ==
    CASE n = "get_certificate_by_serial" -> {"serial_number"}
      [] n = "get_certificate_status"    -> {"issuer_dn", "serial_number"}
      [] n = "revoke_certificate"        -> {"issuer_dn", "serial_number"}
      [] n = "get_latest_crl"            -> {"issuer_dn"}
      [] n = "create_crl"                -> {"issuer_dn"}
      [] n = "get_crl_info"              -> {"issuer_dn"}
      [] n = "get_ca_certificate"        -> {"ca_subject_dn"}
      [] n = "get_ca_certificates"       -> {"ca_subject_dn"}
      [] n = "enroll_certificate"        -> {"certificate_request", "ca_name"}
      [] OTHER                           -> {}

\* the revocation reasons the schema of revoke_certificate names
RevocationReasons ==
    {"UNSPECIFIED", "KEY_COMPROMISE", "CA_COMPROMISE", "AFFILIATION_CHANGED",
     "SUPERSEDED", "CESSATION_OF_OPERATION", "CERTIFICATE_HOLD", "REMOVE_FROM_CRL",
     "PRIVILEGE_WITHDRAWN", "AA_COMPROMISE"}

IsErrorEnvelope == envelope.icon = "cross"

\* the entries of the wire log made for the request in `slot` over `channel`
Sent(slot, channel) ==
    {i \in 1..Len(wire) : wire[i].slot = slot /\ wire[i].channel = channel}

\* C1: a call of a registered tool that lacks one of its required arguments ends
\* at once in an ERROR envelope, and nothing was sent on either channel.
C1_MissingRequiredArgument ==
    (name \in Tools /\ Required(name) \ DOMAIN arguments # {})
        => /\ pc = "done"
           /\ IsErrorEnvelope
           /\ envelope.status_text = "ERROR"
           /\ wire = <<>>

C1_Witness ==
    /\ pc = "done"
    /\ name = "revoke_certificate"
    /\ DOMAIN arguments = {"issuer_dn", "reason"}
    /\ envelope.kind = "exception"
    /\ envelope.error = "KeyError"
    /\ ejbca_client.has_certificates

\* C2: a revoke_certificate call whose reason is outside the enumerated set is
\* rejected with an ERROR envelope and no request reaches either channel.
C2_InvalidReasonRejected ==
    (name = "revoke_certificate" /\ Has(arguments, "reason")
       /\ arguments["reason"] \notin RevocationReasons)
        => /\ \A i \in 1..Len(wire) : wire[i].method # "PUT"
           /\ pc = "done" => IsErrorEnvelope

\* C3: for every request whose primary attempt raised, the curl process was run
\* at most once, and exactly once by the time the request has its result; that
\* result carries the curl channel tag, and so does the envelope of a call that
\* consists of this one request.
C3_FallbackOnceOnException ==
    \A i \in 1..Len(wire) :
        (wire[i].channel = "requests" /\ wire[i].raised)
            => LET slot == wire[i].slot
               IN /\ Cardinality(Sent(slot, "curl")) <= 1
                  /\ Len(results) >= slot
                       => /\ Cardinality(Sent(slot, "curl")) = 1
                          /\ Has(results[slot], "_method")
                          /\ results[slot]["_method"] = "curl"
                  /\ (pc = "done" /\ name \notin Composite)
                       => envelope.method = "curl"

C3_Witness ==
    /\ pc = "done"
    /\ name = "get_ca_list"
    /\ Len(wire) = 2
    /\ wire[1].channel = "requests" /\ wire[1].raised
    /\ wire[2].channel = "curl" /\ wire[2].raised
    /\ envelope.method = "curl"

\* C4: a status outside 2xx answered on the primary channel never starts the curl
\* process for that request; the request's result comes from the primary channel
\* and carries that status.
C4_NonOkStatusNoFallback ==
    \A i \in 1..Len(wire) :
        (wire[i].channel = "requests" /\ wire[i].answer # NoAnswer
           /\ wire[i].answer.status \notin 200..299)
            => LET slot == wire[i].slot
               IN /\ Sent(slot, "curl") = {}
                  /\ Len(results) >= slot
                  /\ results[slot]["_method"] = "requests"
                  /\ results[slot]["_status_code"] = wire[i].answer.status
                  /\ (pc = "done" /\ name \notin Composite)
                       => /\ envelope.method = "requests"
                          /\ envelope.status_code = wire[i].answer.status

C4_Witness ==
    /\ pc = "done"
    /\ name = "revoke_certificate"
    /\ Len(wire) = 1
    /\ wire[1].channel = "requests"
    /\ wire[1].answer.status = 500
    /\ envelope.status_code = 500
    /\ envelope.status_text = "ERROR"

\* the dicts compared key by key
SameDict(a, b) == DOMAIN a = DOMAIN b /\ \A k \in DOMAIN a : a[k] = b[k]

\* C5: whenever both channels sent the same request of a call, the curl request
\* has the method, URL, query parameters and JSON body of the primary request.
C5_FallbackEquivalent ==
    \A i \in 1..Len(wire), j \in 1..Len(wire) :
        (wire[i].channel = "requests" /\ wire[j].channel = "curl"
           /\ wire[i].slot = wire[j].slot)
            => /\ wire[j].method = wire[i].method
               /\ wire[j].url = wire[i].url
               /\ SameDict(wire[j].query, wire[i].query)
               /\ SameDict(wire[j].body, wire[i].body)

\* the wire entry whose answer became the result of a single-request call
Served == wire[Len(wire)]

\* C6: when the answer a call was served with has the CRL media type, the
\* envelope has a byte-length field equal to the number of bytes of the payload.
C6_CrlByteLength ==
    (pc = "done" /\ name \notin Composite /\ Len(wire) > 0
       /\ Served.answer.ctype = CrlType)
        => /\ Has(envelope.body, "crl_size_bytes")
           /\ envelope.body["crl_size_bytes"] = Len(Served.answer.body.content)

\* C7: the request of get_crl and get_latest_crl has no query parameter when
\* delta_crl is false and crl_partition_index is 0, and has crlPartitionIndex
\* whenever crl_partition_index is not 0.
C7_CrlQuery ==
    (pc = "transport" /\ name \in {"get_crl", "get_latest_crl"})
        => LET query == Get(Head(pending).kwargs, "params", EmptyDict)
               delta == Get(arguments, "delta_crl", FALSE)
               idx   == Get(arguments, "crl_partition_index", 0)
           IN /\ (~delta /\ idx = 0) => DOMAIN query = {}
              /\ idx # 0 => Has(query, "crlPartitionIndex")

\* C8: the envelope of a formatted result is ERROR when the result has an error
\* indicator, otherwise SUCCESS when it has a true success indicator or status
\* 200, otherwise WARNING; and no envelope is SUCCESS with an error message.
C8_Classification ==
    pc = "done" =>
        /\ envelope.kind = "result" =>
             LET error   == Has(result, "error")
                 success == Has(result, "success") /\ result["success"]
                 ok      == Has(result, "_status_code") /\ result["_status_code"] = 200
             IN /\ error => envelope.status_text = "ERROR"
                /\ (~error /\ (success \/ ok)) => envelope.status_text = "SUCCESS"
                /\ (~error /\ ~success /\ ~ok) => envelope.status_text = "WARNING"
        /\ envelope.status_text = "SUCCESS" =>
             /\ ~Has(envelope.body, "error")
             /\ envelope.error = ""
             /\ envelope.icon = "check"

C8_Witness ==
    /\ pc = "done"
    /\ name = "get_ca_version"
    /\ Has(result, "error")
    /\ Has(result, "_status_code") /\ result["_status_code"] = 200
    /\ envelope.status_text = "ERROR"

InternalKeys == {"_method", "_status_code", "_url"}

\* the keys of a composite result whose values are sub-results
SubResultKeys == {"certificate_api_status", "ca_version", "certificate_status", "ca_list"}

Leaks(d) ==
    \/ DOMAIN d \cap InternalKeys # {}
    \/ \E k \in DOMAIN d \cap SubResultKeys : DOMAIN d[k] \cap InternalKeys # {}

\* C9: the body handed to the formatter has no internal transport metadata,
\* at the top level or inside a nested sub-result.
C9_NoInternalMetadata ==
    pc = "done" =>
        /\ ~Leaks(envelope.body)
        /\ Has(envelope.body, "api_tests") => ~Leaks(envelope.body["api_tests"])

\* C10: a call of a name that is no registered tool ends at once in an error
\* envelope, and nothing was sent on either channel.
C10_UnknownTool ==
    (name # "" /\ name \notin Tools)
        => /\ pc = "done"
           /\ IsErrorEnvelope
           /\ envelope.kind = "unknown_tool"
           /\ wire = <<>>

C10_Witness ==
    /\ pc = "done"
    /\ name = "delete_everything"
    /\ envelope.kind = "unknown_tool"
    /\ ejbca_client.has_certificates

\* the escapes of the characters of a distinguished name that are not
\* letters, digits, "_", ".", "-" or "~"
Escaped(c) ==
    CASE c = "=" -> "%3D"
      [] c = " " -> "%20"
      [] c = "," -> "%2C"
      [] OTHER   -> c

Rules == {"configure_certificates", "cert_not_found", "key_not_found",
          "certificate_api", "ca_api"}

Fired(recommendations) == {recommendations[i] : i \in 1..Len(recommendations)}

\* C13 as stated: once troubleshoot_connection has returned its recommendations,
\* every subset of the five rules is the set of rules it fires for some configuration, some state of the credential files at the time of the
\* call and some outcomes of the two probes.
C13_EverySubsetFires ==
    (pc = "done" /\ name = "troubleshoot_connection") =>
    \A S \in SUBSET Rules :
      \E cert_path \in {"", "client.pem"}, key_path \in {"", "client.key"},
         files \in [cert : BOOLEAN, key : BOOLEAN],
         p \in [cert_exists : BOOLEAN, key_exists : BOOLEAN] :
        LET client == NewClient("https://localhost:443", cert_path, key_path, files)
        IN \E pout1 \in PrimaryOutcomes(get_certificate_api_status),
              cout1 \in CurlOutcomes(get_certificate_api_status),
              pout2 \in PrimaryOutcomes(get_ca_version),
              cout2 \in CurlOutcomes(get_ca_version) :
             Fired(Recommendations(client, p,
                     MakeRequest(client, get_certificate_api_status, pout1, cout1),
                     MakeRequest(client, get_ca_version, pout2, cout2))) = S

\* C13 amended: each of the five rules fires exactly when its own condition
\* holds, whatever the other rules do; and whenever "no credentials configured"
\* fires, "certificate API unreachable" and "CA API unreachable" fire with it.
C13_RulesFire ==
    (pc = "done" /\ name = "troubleshoot_connection")
        => LET fired == Fired(result["recommendations"])
           IN /\ "configure_certificates" \in fired <=> ~ejbca_client.has_certificates
              /\ "cert_not_found" \in fired
                   <=> (~probe.cert_exists /\ ejbca_client.cert_path # "")
              /\ "key_not_found" \in fired
                   <=> (~probe.key_exists /\ ejbca_client.key_path # "")
              /\ "certificate_api" \in fired <=> Has(results[1], "error")
              /\ "ca_api" \in fired <=> Has(results[2], "error")
              /\ "configure_certificates" \in fired
                   => {"certificate_api", "ca_api"} \subseteq fired

C13_Witness ==
    /\ pc = "done"
    /\ name = "troubleshoot_connection"
    /\ Fired(result["recommendations"]) =
         {"configure_certificates", "key_not_found", "certificate_api", "ca_api"}

\* the requests of the current call that something was sent for
Slots == {wire[i].slot : i \in 1..Len(wire)}

\* C15: for each request of a call the requests session is used at most once and
\* only with both credential files found, the curl process is started at most
\* once and only after the session attempt of that request raised, and with
\* no credentials nothing is sent at all.
C15_AtMostTwoAttempts ==
    /\ \A slot \in Slots :
         /\ Cardinality(Sent(slot, "requests")) <= 1
         /\ Cardinality(Sent(slot, "curl")) <= 1
         /\ \A j \in Sent(slot, "curl") :
              \E i \in Sent(slot, "requests") : i < j /\ wire[i].raised
    /\ wire # <<>> =>
         /\ Exists(ejbca_client.cert_path, fs.cert)
         /\ Exists(ejbca_client.key_path, fs.key)
    /\ ~ejbca_client.has_certificates => wire = <<>>

C15_Witness ==
    /\ pc = "done"
    /\ name = "test_ejbca_connection"
    /\ Len(wire) = 4
    /\ wire[1].channel = "requests" /\ wire[2].channel = "curl"
    /\ wire[3].channel = "requests" /\ wire[4].channel = "curl"

\* C16: a 200 answer on the primary channel (other than a JSON object that
\* itself carries an error indicator) never starts the curl process for that
\* request; the result comes from the primary channel and is classified SUCCESS.
C16_OkNeverFallsBack ==
    \A i \in 1..Len(wire) :
        (/\ wire[i].channel = "requests"
         /\ wire[i].kind = "answer"
         /\ wire[i].answer.status = 200
         /\ ~Has(wire[i].answer.body.obj, "error"))
            => LET slot == wire[i].slot
               IN /\ Sent(slot, "curl") = {}
                  /\ Len(results) >= slot
                       => /\ results[slot]["_method"] = "requests"
                          /\ Classify(results[slot]) = "SUCCESS"
                  /\ (pc = "done" /\ name \notin Composite)
                       => /\ envelope.method = "requests"
                          /\ envelope.status_text = "SUCCESS"

\* C18: the envelope of a call served by the primary channel has the
\* classification that the same answer gets when the curl process delivers it.
C18_SameClassification ==
    (pc = "done" /\ name \notin Composite /\ Len(wire) = 1
       /\ wire[1].channel = "requests")
        => envelope.status_text
             = Classify(CurlResult([kind |-> "exit0", answer |-> wire[1].answer]))

\* C19: the envelope of test_ejbca_connection and of troubleshoot_connection is
\* WARNING whatever the results of the probes.
C19_CompositeWarning ==
    (pc = "done" /\ name \in Composite)
        => /\ envelope.kind = "result"
           /\ envelope.status_text = "WARNING"

C19_Witness ==
    /\ pc = "done"
    /\ name = "test_ejbca_connection"
    /\ Len(wire) = 2
    /\ \A i \in 1..2 : /\ results[i]["_method"] = "requests"
                       /\ Classify(results[i]) = "SUCCESS"
    /\ envelope.status_text = "WARNING"

\* C11: a call never lets an exception out of the handler and is never stuck
\* between requests; what it returns is an envelope, and an exception raised in
\* its branch gives the ERROR envelope with the exception's message and the tip.
C11_AlwaysEnvelope ==
    /\ pc \in {"idle", "transport", "done"}
    /\ pc = "transport" =>
         /\ pending # <<>>
         /\ stage \in {"request", "fallback"}
         /\ stage = "fallback" => ejbca_client.has_certificates
         /\ Len(results) + Len(pending) = Len(Requests(name, arguments, clock))
    /\ pc = "done" => envelope.kind \in {"result", "unknown_tool", "exception"}
    /\ (pc # "idle" /\ name \in Tools /\ ArgumentError(name, arguments) # "") =>
         /\ pc = "done"
         /\ wire = <<>>
         /\ envelope.kind = "exception"
         /\ envelope.icon = "cross"
         /\ envelope.status_text = "ERROR"
         /\ envelope.error = ArgumentError(name, arguments)
         /\ envelope.tip

C11_Witness ==
    /\ pc = "done"
    /\ name = "get_crl_info"
    /\ ~Has(arguments, "issuer_dn")
    /\ envelope.kind = "exception"
    /\ envelope.error = "KeyError"
    /\ envelope.tip

\* the envelope of the call in progress had it run alone: a client fresh from
\* construction, and for each request the outcomes that `wire` recorded
AloneEnvelope ==
    LET client == NewClient(ejbca_client.base_url, ejbca_client.cert_path,
                            ejbca_client.key_path, fs)
        reqs == Requests(name, arguments, clock)
        p == IF name = "troubleshoot_connection"
             THEN [cert_exists |-> Exists(client.cert_path, fs.cert),
                   key_exists |-> Exists(client.key_path, fs.key)]
             ELSE NoProbe
        pout(k) == IF Sent(k, "requests") = {}
                   THEN [exc |-> TRUE, answer |-> NoAnswer]
                   ELSE LET w == wire[CHOOSE i \in Sent(k, "requests") : TRUE]
                        IN [exc |-> w.kind = "exception", answer |-> w.answer]
        cout(k) == IF Sent(k, "curl") = {}
                   THEN [kind |-> "exception", answer |-> NoAnswer]
                   ELSE LET w == wire[CHOOSE i \in Sent(k, "curl") : TRUE]
                        IN [kind |-> w.kind, answer |-> w.answer]
        rs == [k \in 1..Len(reqs) |-> MakeRequest(client, reqs[k], pout(k), cout(k))]
    IN Format(Assemble(client, name, p, rs))

C14_State ==
    /\ ejbca_client = NewClient(ejbca_client.base_url, ejbca_client.cert_path,
                                ejbca_client.key_path, fs)
    /\ \A i \in 1..Len(wire) :
         /\ wire[i].slot \in 1..Len(Requests(name, arguments, clock))
         /\ wire[i].slot \in {Len(results), Len(results) + 1}
               \/ pc = "done"
         /\ wire[i].url
              = Url(ejbca_client, Requests(name, arguments, clock)[wire[i].slot].endpoint)
         /\ \A j \in 1..Len(wire) : i < j => wire[i].slot <= wire[j].slot
    /\ (pc = "done" /\ name \in Tools /\ ArgumentError(name, arguments) = "")
          => envelope = AloneEnvelope

\* C14: with calls issued concurrently, no step changes the shared client
\* (base URL, credential paths, has_certificates, session certificate); what is
\* on the wire belongs to the one call in progress, request after request; and
\* the envelope a call returns is the one it gets alone with the same answers.
C14_NoInterference ==
    /\ []C14_State
    /\ [][ejbca_client' = ejbca_client]_vars

C14_Witness ==
    /\ pc = "done"
    /\ name = "get_ca_list"
    /\ generated # <<>>
    /\ \E c \in Issued : inbox[c] > 0
    /\ Len(wire) = 2
    /\ envelope = AloneEnvelope

\* C17: the usernames generated for enrollments without a username are pairwise
\* distinct.
C17_UsernamesDistinct ==
    \A i, j \in 1..Len(generated) : i # j => generated[i] # generated[j]

====
